---- MODULE Spec2Model ----
(***************************************************************************)
(* Job processing pipeline of the estimate worker (pages/api/process-job.js,*)
(* the "PRICEBOOK + TEMPLATE ENFORCED WORKER"): claiming, document fetch,   *)
(* the two model stages, pricing, the estimate write and the email; and of  *)
(* the intake webhook (pages/api/tally.js) that inserts the jobs.           *)
(*                                                                          *)
(* Units.  Money is kept in cents, quantities in 1/QtyDen units, tax rates  *)
(* in 1/RateDen.  Timestamps are kept as ages (clock ticks since the value  *)
(* was written), saturating one tick past the staleness threshold: the only *)
(* use the code makes of started_at / ai_started_at is the comparison with  *)
(* now - STALE_MINUTES.                                                     *)
(***************************************************************************)
EXTENDS Integers, Sequences, FiniteSets, TLC

VARIABLES jobs, inv, kills, store, oracle, workers, intake

vars == <<jobs, inv, kills, store, oracle, workers, intake>>

---------------------------------------------------------------------------
\* Bounds of the model.
MaxJobs == 2
MaxInv == 2
StaleTicks == 0
MaxKills == 1
MaxIntake == 2
QtyDen == 2

Jobs == 1..MaxJobs
Invs == 1..MaxInv

\* Program constants.
RateDen == 100000
TAX_RATE_DEFAULT == 11200

---------------------------------------------------------------------------
\* JavaScript values that reach the pricing code: a number, null/undefined,
\* or something Number() turns into NaN.
Num(v) == [k |-> "num", v |-> v]
JsNull == [k |-> "null", v |-> 0]
JsNaN == [k |-> "nan", v |-> 0]

\* Rounding that drops the fraction of a cent (not what the code does; C14
\* must tell the two apart).
round2Down(numer, den) == numer \div den

\* Math.round(x * 100) / 100 on the value numer/den given in cents:
\* the nearest cent, a half rounding up.
round2(numer, den) == (2 * numer + den) \div (2 * den)

---------------------------------------------------------------------------
\* Pricing engine and estimate assembly (pure functions).

TRIP_FEE_CODE == "TRIP_FEE"

\* new Map(pricebook.map((p) => [p.code, p])): a later row replaces an
\* earlier one with the same code.
pricebookMap(pricebook) ==
  [c \in {pricebook[n].code : n \in DOMAIN pricebook} |->
     pricebook[CHOOSE n \in DOMAIN pricebook :
                 /\ pricebook[n].code = c
                 /\ \A m \in DOMAIN pricebook : pricebook[m].code = c => m <= n]]

\* Number(li?.qty ?? pb.min_qty ?? 1)
qtyNum(li, pb) ==
  IF li.qty.k # "null" THEN li.qty
  ELSE IF pb.min_qty.k # "null" THEN pb.min_qty
  ELSE Num(QtyDen)

\* Number(pb.min_qty || 1): null, 0 and NaN are falsy.
minQtyOrOne(pb) ==
  IF pb.min_qty.k = "num" /\ pb.min_qty.v # 0 THEN pb.min_qty.v ELSE QtyDen

\* A fallback that ignores the pricebook's minimum (not what the code does;
\* C26 must tell the two apart).
resolveQtyOrOne(li, pb) ==
  LET q == qtyNum(li, pb)
  IN IF li.qty.k = "num" /\ q.v > 0 THEN q.v ELSE QtyDen

\* Number.isFinite(qtyNum) && qtyNum > 0 ? qtyNum : Number(pb.min_qty || 1)
resolveQty(li, pb) ==
  LET q == qtyNum(li, pb)
  IN IF q.k = "num" /\ q.v > 0 THEN q.v ELSE minQtyOrOne(pb)

\* A priced line that takes the unit price the model supplied when there is
\* one (not what the code does; C13 must tell the two apart).
pricedLineTrusting(li, pb) ==
  LET qty == resolveQty(li, pb)
      price == IF li.unit_price.k = "num" THEN round2(li.unit_price.v, 10)
               ELSE pb.unit_price
  IN [code |-> pb.code, name |-> pb.name, description |-> li.description,
      qty |-> qty, unit_price |-> price, total |-> round2(qty * price, QtyDen)]

\* A priced line that remembers earlier runs: the jobs already completed are
\* added to its quantity (not what the code does; C22 must tell the two
\* apart).
pricedLineRemembering(li, pb) ==
  LET qty == resolveQty(li, pb)
             + QtyDen * Cardinality({j \in DOMAIN jobs : jobs[j].status = "complete"})
  IN [code |-> pb.code, name |-> pb.name, description |-> li.description,
      qty |-> qty, unit_price |-> pb.unit_price,
      total |-> round2(qty * pb.unit_price, QtyDen)]

\* The priced line pushed onto `fixed` for an item whose code is in the map.
pricedLine(li, pb) ==
  LET qty == resolveQty(li, pb)
  IN [code |-> pb.code,
      name |-> pb.name,
      description |-> li.description,
      qty |-> qty,
      unit_price |-> pb.unit_price,
      total |-> round2(qty * pb.unit_price, QtyDen)]

\* A comparison that does not round the supplied price (not what the code
\* does; C27 must tell the two apart).
priceTamperedExact(li, pb) ==
  /\ li.unit_price.k = "num"
  /\ li.unit_price.v # 10 * pb.unit_price

\* The model supplied a unit_price (given in tenths of a cent) that differs,
\* after rounding to cents, from the pricebook's.
priceTampered(li, pb) ==
  /\ li.unit_price.k = "num"
  /\ round2(li.unit_price.v, 10) # pb.unit_price

RECURSIVE fixedLines(_, _)
fixedLines(items, pbMap) ==
  IF items = <<>> THEN <<>>
  ELSE LET li == Head(items)
       IN (IF li.code \in DOMAIN pbMap
           THEN <<pricedLine(li, pbMap[li.code])>> ELSE <<>>)
          \o fixedLines(Tail(items), pbMap)

RECURSIVE priceErrors(_, _)
priceErrors(items, pbMap) ==
  IF items = <<>> THEN <<>>
  ELSE LET li == Head(items)
       IN (IF li.code \in DOMAIN pbMap /\ priceTampered(li, pbMap[li.code])
           THEN <<[kind |-> "model_unit_price", code |-> li.code]>> ELSE <<>>)
          \o priceErrors(Tail(items), pbMap)

\* An unmapped list that forgets the items it skipped (not what the code
\* does; C15 must tell the two apart).
unmappedForgotten(items, pbMap) == <<>>

RECURSIVE unmappedOf(_, _)
unmappedOf(items, pbMap) ==
  IF items = <<>> THEN <<>>
  ELSE LET li == Head(items)
       IN (IF li.code \notin DOMAIN pbMap
           THEN <<[item |-> li, reason |-> "code_not_in_pricebook"]>> ELSE <<>>)
          \o unmappedOf(Tail(items), pbMap)

\* A sum that leaves the first line out (not what the code computes; C25
\* must tell the two apart).
sumWithoutFirst(lines) ==
  LET rest == IF lines = <<>> THEN <<>> ELSE Tail(lines)
      add[n \in 0..Len(rest)] == IF n = 0 THEN 0 ELSE add[n - 1] + rest[n].total
  IN add[Len(rest)]

\* fixed.reduce((s, x) => s + Number(x.total || 0), 0)
RECURSIVE sumTotals(_)
sumTotals(lines) ==
  IF lines = <<>> THEN 0 ELSE Head(lines).total + sumTotals(Tail(lines))

validateAndPrice(mapped, pbMap) ==
  LET lineItems == IF mapped.has_line_items THEN mapped.line_items ELSE <<>>
      fixed == fixedLines(lineItems, pbMap)
  IN [corrected |-> [summary |-> mapped.summary,
                     line_items |-> fixed,
                     subtotal |-> round2(sumTotals(fixed), 1),
                     unmapped_items |-> mapped.unmapped_items],
      errors |-> priceErrors(lineItems, pbMap),
      unmapped |-> unmappedOf(lineItems, pbMap)]

\* A rule text as Number(t.replace("%", "")) reads it: a number (in
\* thousandths), the empty text (Number("") is 0) or not a number.
ruleNumber(text) ==
  CASE text.kind = "number" -> Num(text.milli)
    [] text.kind = "empty" -> Num(0)
    [] OTHER -> JsNaN

\* String(x.rule_key || "").toUpperCase()
upperKey(k) == IF k = "tax_rate" THEN "TAX_RATE" ELSE k

getTaxRateFromRules(rules) ==
  LET hits == {n \in DOMAIN rules : upperKey(rules[n].rule_key) = "TAX_RATE"}
  IN IF hits = {} THEN TAX_RATE_DEFAULT
     ELSE LET r == rules[CHOOSE n \in hits : \A m \in hits : n <= m]
              n == ruleNumber(r.rule_text)
          IN IF n.k # "num" THEN TAX_RATE_DEFAULT
             ELSE IF r.rule_text.pct \/ n.v > 1000
                  THEN round2(n.v, 1000) * 1000
                  ELSE n.v * 100

\* A tax that drops the fraction of a cent (not what the code computes; C19
\* must tell the two apart).
taxTruncated(subtotal, taxRate) == (subtotal * taxRate) \div RateDen

\* const tax = round2(corrected.subtotal * taxRate)
taxOf(subtotal, taxRate) == round2(subtotal * taxRate, RateDen)

\* A grand total that leaves the tax out (not what the code computes; C6 must
\* tell the two apart).
totalWithoutTax(subtotal, tax) == round2(subtotal, 1)

\* const total = round2(corrected.subtotal + tax)
totalOf(subtotal, tax) == round2(subtotal + tax, 1)

\* A skipped trip fee that leaves no diagnostic (not what the code does; C17
\* must tell the two apart).
tripFeeErrorsSilent(errors, hasPolicy, hasTripCode) == errors

\* errors.push("Trip fee skipped: pricebook code TRIP_FEE not found.")
tripFeeErrors(errors, hasPolicy, hasTripCode) ==
  IF hasPolicy /\ ~hasTripCode
  THEN Append(errors, [kind |-> "trip_fee_skipped", code |-> TRIP_FEE_CODE])
  ELSE errors

\* handler, "apply_trip_fee" and "compute_tax_total".
assembleEstimate(mapped, cfg, jobId) ==
  LET pbMap == pricebookMap(cfg.pricebook)
      vp == validateAndPrice(mapped, pbMap)
      hasPolicy == cfg.tripFees # <<>>
      hasTripCode == TRIP_FEE_CODE \in DOMAIN pbMap
      tripFeeAmount == IF hasPolicy /\ hasTripCode
                       THEN round2(cfg.tripFees[1].base_fee, 1) ELSE 0
      lines == IF hasPolicy /\ hasTripCode
               THEN Append(vp.corrected.line_items,
                           [code |-> TRIP_FEE_CODE,
                            name |-> pbMap[TRIP_FEE_CODE].name,
                            description |-> cfg.tripFees[1].label,
                            qty |-> QtyDen,
                            unit_price |-> tripFeeAmount,
                            total |-> tripFeeAmount])
               ELSE vp.corrected.line_items
      subtotal == round2(vp.corrected.subtotal + tripFeeAmount, 1)
      errors == tripFeeErrors(vp.errors, hasPolicy, hasTripCode)
      taxRate == getTaxRateFromRules(cfg.rules)
      tax == taxOf(subtotal, taxRate)
  IN [corrected |-> [present |-> TRUE,
                     summary |-> vp.corrected.summary,
                     line_items |-> lines,
                     subtotal |-> subtotal,
                     unmapped_items |-> vp.corrected.unmapped_items,
                     tax_rate |-> taxRate,
                     tax |-> tax,
                     total |-> totalOf(subtotal, tax),
                     trip_fee |-> tripFeeAmount,
                     estimate_id |-> jobId],
      errors |-> errors,
      unmapped |-> vp.unmapped]

---------------------------------------------------------------------------
\* Text.  A string is a sequence of one-character strings.

WordChars == {"a", "b", "c", "d", "e", "f", "g", "h", "i", "j", "k", "l", "m",
              "n", "o", "p", "q", "r", "s", "t", "u", "v", "w", "x", "y", "z",
              "0", "1", "2", "3", "4", "5", "6", "7", "8", "9", "_"}
ToLower == [A |-> "a", B |-> "b", C |-> "c", D |-> "d", E |-> "e", F |-> "f", G |-> "g", H |-> "h", I |-> "i", J |-> "j", K |-> "k", L |-> "l", M |-> "m",
            N |-> "n", O |-> "o", P |-> "p", Q |-> "q", R |-> "r", S |-> "s", T |-> "t", U |-> "u", V |-> "v", W |-> "w", X |-> "x", Y |-> "y", Z |-> "z"]

\* String.prototype.toLowerCase, character by character.
lowerChar(c) == IF c \in DOMAIN ToLower THEN ToLower[c] ELSE c
toLowerCase(s) == [n \in DOMAIN s |-> lowerChar(s[n])]

\* normalize(s): lower case, every character that is not a word character,
\* white space or a hyphen replaced by a space, runs of white space collapsed
\* to one space, trimmed.
normalize(s) ==
  LET spaced(n) == IF lowerChar(s[n]) \in WordChars \cup {"-"} THEN lowerChar(s[n]) ELSE " "
      marked == [n \in DOMAIN s |->
                   [c |-> spaced(n),
                    keep |-> spaced(n) # " " \/ (n > 1 /\ spaced(n - 1) # " ")]]
      collapsed == SelectSeq(marked, LAMBDA m : m.keep)
      last == Len(collapsed)
  IN [n \in 1..(IF last > 0 /\ collapsed[last].c = " " THEN last - 1 ELSE last) |->
        collapsed[n].c]

\* The contiguous parts of a string, the empty one among them.
substrings(t) ==
  {<<>>} \cup UNION {{SubSeq(t, a, b) : b \in a..Len(t)} : a \in 1..Len(t)}

\* t.includes(a)
includes(t, a) == a \in substrings(t)

\* new Map(aliases.map((a) => [String(a.alias || "").toLowerCase(), a.code])):
\* the entries in insertion order; a later row with the same key replaces the
\* code of the earlier one and keeps its place.  When no two rows have the
\* same key the entries are the rows.
aliasMap(aliases) ==
  LET key == [n \in DOMAIN aliases |-> toLowerCase(aliases[n].alias)]
      same(n) == {m \in DOMAIN aliases : key[m] = key[n]}
      entries == [n \in DOMAIN aliases |->
                    [alias |-> key[n],
                     code |-> aliases[CHOOSE m \in same(n) : \A k \in same(n) : k <= m].code,
                     first |-> \A k \in same(n) : n <= k]]
      kept == SelectSeq(entries, LAMBDA e : e.first)
  IN IF Cardinality({key[n] : n \in DOMAIN aliases}) = Len(aliases)
     THEN [n \in DOMAIN aliases |-> [alias |-> key[n], code |-> aliases[n].code]]
     ELSE [n \in DOMAIN kept |-> [alias |-> kept[n].alias, code |-> kept[n].code]]

SHORTLIST_CAP == 600
NoMatch == [alias |-> <<>>, code |-> ""]

\* bestAliasMatch(rawText, aliasMap): the loop skips an empty alias and
\* replaces best only by a strictly longer alias that the normalized text
\* includes (holds among its contiguous parts), so it ends with the first of
\* the longest such aliases.
bestAliasMatch(rawText, entries) ==
  LET bestIn(parts) ==
        LET found == {n \in DOMAIN entries :
                        entries[n].alias # <<>> /\ entries[n].alias \in parts}
            longest == {n \in found :
                          \A k \in found : Len(entries[k].alias) <= Len(entries[n].alias)}
        IN IF found = {} THEN NoMatch
           ELSE entries[CHOOSE n \in longest : \A k \in longest : n <= k]
  IN CHOOSE best \in {bestIn(substrings(t)) : t \in {normalize(rawText)}} : TRUE

\* "build_shortlist": the codes of the best matches of the extracted items.
candidatesOf(extractedItems, entries) ==
  {bestAliasMatch(extractedItems[n], entries).code : n \in DOMAIN extractedItems} \ {""}

\* The candidates' rows, or else the whole pricebook, without a cap.
pbUncapped(pricebook, candidates) ==
  LET filtered == SelectSeq(pricebook, LAMBDA p : p.code \in candidates)
  IN IF filtered # <<>> THEN filtered ELSE pricebook

\* config.pricebook.filter((p) => candidates.has(p.code)).slice(0, 600), and
\* config.pricebook.slice(0, 600) when that is empty.
pbForModel(pricebook, candidates) ==
  LET filtered == SelectSeq(pricebook, LAMBDA p : p.code \in candidates)
      shortlist == SubSeq(filtered, 1, IF Len(filtered) < SHORTLIST_CAP
                                       THEN Len(filtered) ELSE SHORTLIST_CAP)
  IN IF shortlist # <<>> THEN shortlist
     ELSE SubSeq(pricebook, 1, IF Len(pricebook) < SHORTLIST_CAP
                               THEN Len(pricebook) ELSE SHORTLIST_CAP)

---------------------------------------------------------------------------
\* The configuration store: the config_versions rows marked active and the
\* active rows of the five dependent tables.

TEMPLATE_KEY_DEFAULT == "BINSR_PROS_REPAIR_ESTIMATE_V1"

\* (config.templates || []).find((t) => t.template_key === templateKey),
\* then tmpl?.body_html.
templateFound(templates) ==
  LET hits == {n \in DOMAIN templates : templates[n].template_key = TEMPLATE_KEY_DEFAULT}
  IN hits # {} /\ templates[CHOOSE n \in hits : \A m \in hits : n <= m].has_body

\* errors.push(`Template not found or missing body_html ... Used fallback.`)
templateErrors(errors, templates) ==
  IF templateFound(templates) THEN errors
  ELSE Append(errors, [kind |-> "template_fallback", code |-> TEMPLATE_KEY_DEFAULT])
TableNames == <<"pricebook_items", "aliases", "trip_fees", "estimate_rules", "templates">>

pbSmoke == [code |-> "SMOKE01", name |-> "Smoke detector", unit_price |-> 4500,
            min_qty |-> Num(QtyDen)]
pbX1 == [code |-> "X1", name |-> "Outlet repair", unit_price |-> 12500,
         min_qty |-> JsNull]
pbTrip == [code |-> TRIP_FEE_CODE, name |-> "Trip fee", unit_price |-> 7500,
           min_qty |-> JsNull]
pbCaulk == [code |-> "CAULK", name |-> "Caulking", unit_price |-> 125,
            min_qty |-> Num(0)]
pbGfci == [code |-> "GFCI", name |-> "GFCI outlet", unit_price |-> 3000,
           min_qty |-> Num(2 * QtyDen)]
tripPolicy == [label |-> "Standard", base_fee |-> 8500]
taxRule == [rule_key |-> "TAX_RATE", priority |-> 1,
            rule_text |-> [kind |-> "number", milli |-> 100, pct |-> FALSE]]

\* estimate_rules rows with rule_text "11.2%", "0.112" and "11.2".
taxRuleText(milli, pct) ==
  [rule_key |-> "TAX_RATE", priority |-> 1,
   rule_text |-> [kind |-> "number", milli |-> milli, pct |-> pct]]
taxRulePercentSign == taxRuleText(11200, TRUE)
taxRuleFraction == taxRuleText(112, FALSE)
taxRulePercent == taxRuleText(11200, FALSE)
emailTemplate == [template_key |-> TEMPLATE_KEY_DEFAULT, has_body |-> TRUE]

\* estimate_rules rows whose rule_text is empty (or blank) and "see county
\* table"; and two TAX_RATE rows, "0.05" with priority 2 stored before "0.10"
\* with priority 1.
taxRuleEmpty ==
  [rule_key |-> "TAX_RATE", priority |-> 1,
   rule_text |-> [kind |-> "empty", milli |-> 0, pct |-> FALSE]]
taxRuleWords ==
  [rule_key |-> "TAX_RATE", priority |-> 1,
   rule_text |-> [kind |-> "words", milli |-> 0, pct |-> FALSE]]
taxRuleSecond == [taxRuleText(50, FALSE) EXCEPT !.priority = 2]

\* .order("priority", { ascending: true })
RECURSIVE orderByPriority(_)
orderByPriority(rows) ==
  IF rows = <<>> THEN <<>>
  ELSE LET m == CHOOSE n \in DOMAIN rows :
                  \A k \in DOMAIN rows :
                    \/ rows[n].priority < rows[k].priority
                    \/ rows[n].priority = rows[k].priority /\ n <= k
       IN <<rows[m]>> \o
          orderByPriority(SubSeq(rows, 1, m - 1) \o SubSeq(rows, m + 1, Len(rows)))

\* A snapshot without a trip-fee policy, with the given tax rules.
plainTables(rules) ==
  [pricebook |-> <<pbSmoke, pbX1, pbCaulk, pbGfci>>,
   aliases |-> <<>>,
   tripFees |-> <<>>,
   rules |-> rules,
   templates |-> <<emailTemplate>>]

\* aliases rows: "out", "gf out", "Smk", an empty alias, "c.k", and "old"
\* for a code that has no active pricebook row.
AliasRows ==
  << [alias |-> <<"o", "u", "t">>, code |-> "X1"],
     [alias |-> <<"g", "f", " ", "o", "u", "t">>, code |-> "GFCI"],
     [alias |-> <<"S", "m", "k">>, code |-> "SMOKE01"],
     [alias |-> <<>>, code |-> "CAULK"],
     [alias |-> <<"c", ".", "k">>, code |-> "CAULK"],
     [alias |-> <<"o", "l", "d">>, code |-> "GONE"] >>

\* A snapshot with aliases.
aliasTables == [plainTables(<<taxRule>>) EXCEPT !.aliases = AliasRows]

\* A snapshot whose pricebook is one row longer than the shortlist cap, with
\* one alias "n<k>e" for each code k.
BigCatalogSize == SHORTLIST_CAP + 1

RECURSIVE numeral(_)
numeral(k) ==
  IF k < 10 THEN <<ToString(k)>> ELSE numeral(k \div 10) \o <<ToString(k % 10)>>

tagged(k) == <<"n">> \o numeral(k) \o <<"e">>

bigTables ==
  [plainTables(<<taxRule>>) EXCEPT
     !.pricebook = [k \in 1..BigCatalogSize |->
                      [code |-> ToString(k), name |-> "item", unit_price |-> 100,
                       min_qty |-> JsNull]],
     !.aliases = [k \in 1..BigCatalogSize |-> [alias |-> tagged(k), code |-> ToString(k)]]]

\* Table contents the store may hold: with and without the TRIP_FEE
\* pricebook row, with and without a trip-fee policy, a tax rule and an
\* email template, with the tax rule written in three ways, with a tax rule
\* that holds no number, with two tax rules, with aliases, and with more
\* pricebook rows than the shortlist holds.
TableSets ==
  << [pricebook |-> <<pbSmoke, pbX1, pbTrip, pbCaulk, pbGfci>>,
      aliases |-> <<[alias |-> <<"s", "m", "o", "k", "e">>, code |-> "SMOKE01"]>>,
      tripFees |-> <<tripPolicy>>,
      rules |-> <<taxRule>>,
      templates |-> <<emailTemplate>>],
     [pricebook |-> <<pbSmoke, pbX1, pbCaulk, pbGfci>>,
      aliases |-> <<>>,
      tripFees |-> <<tripPolicy>>,
      rules |-> <<>>,
      templates |-> <<>>],
     plainTables(<<taxRule>>),
     plainTables(<<taxRulePercentSign>>),
     plainTables(<<taxRuleFraction>>),
     plainTables(<<taxRulePercent>>),
     plainTables(<<taxRuleEmpty>>),
     plainTables(<<taxRuleWords>>),
     plainTables(<<taxRuleSecond, taxRule>>),
     aliasTables,
     bigTables >>

\* The first two table contents, those with aliases, and those that fit
\* the shortlist.
CoreTables == {1, 2}
BigTableSet == Len(TableSets)
AliasTableSets == {1, BigTableSet - 1, BigTableSet}
SmallTableSets == DOMAIN TableSets \ {BigTableSet}

---------------------------------------------------------------------------
\* The estimate_jobs table.

NoJob == 0
NoTime == -1
NoError == "null"
INCLUDE_INSPECTION == FALSE

QUEUED_VARIANTS == {"queued", "Queued", "QUEUED"}
PROCESSING_VARIANTS == {"processing", "Processing", "PROCESSING"}
AI_STARTED_VARIANTS == {"ai_started", "AI_STARTED", "Ai_Started", "ai-started", "AI-STARTED"}

\* estimate_json of a row no estimate was ever written to.
NoEstimate ==
  [present |-> FALSE, summary |-> "", line_items |-> <<>>, subtotal |-> 0,
   unmapped_items |-> <<>>, tax_rate |-> 0, tax |-> 0, total |-> 0,
   trip_fee |-> 0, estimate_id |-> NoJob]

\* The row the intake webhook inserts: status queued, the uploaded file
\* URLs, everything else null.  Job ids are not in creation order.
newJob(j, docs) ==
  [status |-> "queued",
   created_at |-> MaxJobs + 1 - j,
   binsr_url |-> docs.binsr,
   inspection_url |-> docs.inspection,
   started_at |-> NoTime,
   ai_started_at |-> NoTime,
   error |-> NoError,
   email_error |-> NoError,
   email_sent_at |-> FALSE,
   config_version_id |-> 0,
   estimate_json |-> NoEstimate,
   validation_errors |-> <<>>,
   unmapped_items |-> <<>>]

\* The intake accepts a submission with at least one of the two files.
DocChoices == {[binsr |-> TRUE, inspection |-> FALSE],
               [binsr |-> FALSE, inspection |-> TRUE]}

\* started_at.lt.cutoff with cutoff = now - STALE_MINUTES; a null column
\* never satisfies lt.
olderThanCutoff(age) == age # NoTime /\ age > StaleTicks

\* A stale select that looks at the timestamps only (not what the code does;
\* C33 must tell the two apart).
staleRowAnyStatus(job) ==
  olderThanCutoff(job.started_at) \/ olderThanCutoff(job.ai_started_at)

\* .in("status", [...PROCESSING_VARIANTS, ...AI_STARTED_VARIANTS])
\* .or(`started_at.lt.${staleCutoff},ai_started_at.lt.${staleCutoff}`)
staleRow(job) ==
  /\ job.status \in PROCESSING_VARIANTS \cup AI_STARTED_VARIANTS
  /\ olderThanCutoff(job.started_at) \/ olderThanCutoff(job.ai_started_at)

\* A queued select by exact equality with the canonical spelling (not what
\* the code does; C32 must tell the two apart).
queuedRowExact(job) == job.status = "queued"

\* .in("status", QUEUED_VARIANTS)
queuedRow(job) == job.status \in QUEUED_VARIANTS

\* .order("created_at", { ascending: true }).limit(1)
firstByCreatedAt(js, S) ==
  CHOOSE j \in S : \A k \in S : js[j].created_at <= js[k].created_at

claimJob(js) ==
  LET queued == {j \in DOMAIN js : queuedRow(js[j])}
      stale == {j \in DOMAIN js : staleRow(js[j])}
  IN IF queued # {} THEN firstByCreatedAt(js, queued)
     ELSE IF stale # {} THEN firstByCreatedAt(js, stale)
     ELSE NoJob

\* A claim write that leaves config_version_id alone (not what the code does;
\* C31 must tell the two apart).
claimWriteWithoutConfig(job, cfgId) ==
  [job EXCEPT !.status = "processing", !.started_at = 0, !.error = NoError,
              !.email_error = NoError]

\* The updates the handler issues, each on the row of one job.
claimWrite(job, cfgId) ==
  [job EXCEPT !.status = "processing", !.started_at = 0, !.error = NoError,
              !.email_error = NoError, !.config_version_id = cfgId]

aiStartedWrite(job) ==
  [job EXCEPT !.status = "ai_started", !.ai_started_at = 0]

\* A complete write that adds its diagnostics to the ones already on the row
\* (not what the code does; C4 must tell the two apart).
completeWriteAppending(job, res) ==
  [job EXCEPT !.status = "complete", !.estimate_json = res.corrected,
              !.validation_errors = @ \o res.errors, !.unmapped_items = @ \o res.unmapped,
              !.error = NoError]

completeWrite(job, res) ==
  [job EXCEPT !.status = "complete", !.estimate_json = res.corrected,
              !.validation_errors = res.errors, !.unmapped_items = res.unmapped,
              !.error = NoError]

\* A failure write that leaves the error column alone (not what the code
\* does; C7 must tell the two apart).
failedWriteStatusOnly(job, msg) ==
  [job EXCEPT !.status = "failed"]

failedWrite(job, msg) ==
  [job EXCEPT !.status = "failed", !.error = msg]

emailSentWrite(job) ==
  [job EXCEPT !.email_sent_at = TRUE, !.email_error = NoError]

\* A delivery-failure write that also fails the job (not what the code does;
\* C11 must tell the two apart).
emailErrorWriteFailing(job, msg) ==
  [job EXCEPT !.email_error = msg, !.status = "failed", !.error = msg]

emailErrorWrite(job, msg) ==
  [job EXCEPT !.email_error = msg]

\* A catch block that, with no job claimed, fails the job claimJob would
\* pick next (not what the code does; C9 must tell the two apart).
markFailedUnclaimed(js, currentJobId, msg) ==
  LET target == IF currentJobId = NoJob THEN claimJob(js) ELSE currentJobId
  IN IF target = NoJob THEN js
     ELSE [js EXCEPT ![target] = [@ EXCEPT !.status = "failed", !.error = msg]]

\* The catch block: mark the job failed if one was claimed.
markFailed(js, currentJobId, msg) ==
  IF currentJobId = NoJob THEN js
  ELSE [js EXCEPT ![currentJobId] = failedWrite(@, msg)]

\* sources[] of the handler: BINSR always, the inspection report only when
\* INCLUDE_INSPECTION is set.
sourcesOf(job) ==
  (IF job.binsr_url THEN <<"BINSR">> ELSE <<>>)
    \o (IF INCLUDE_INSPECTION /\ job.inspection_url THEN <<"INSPECTION">> ELSE <<>>)

---------------------------------------------------------------------------
\* What the collaborators may answer.

lineItem(code, qty, price) ==
  [code |-> code, description |-> "as found", qty |-> qty, unit_price |-> price]

\* Stage B answers (parsed output_text): one item of the catalog; a priced
\* item with a made-up unit_price next to a code that is in no catalog; and
\* JSON that has no line_items array.
StageBOutputs ==
  << [has_line_items |-> TRUE, summary |-> "one item",
      line_items |-> <<lineItem("SMOKE01", Num(QtyDen), JsNull)>>,
      unmapped_items |-> <<>>],
     [has_line_items |-> TRUE, summary |-> "two items",
      line_items |-> <<lineItem("X1", Num(3 * QtyDen), Num(99000)),
                       lineItem("NOPE", Num(QtyDen), JsNull)>>,
      unmapped_items |-> <<"loose railing">>],
     [has_line_items |-> FALSE, summary |-> "", line_items |-> <<>>,
      unmapped_items |-> <<>>] >>

\* Stage B answers with several items: a catalog item after an unknown code
\* after another catalog item; and an item mapped to the trip-fee code.
MixedOutputs ==
  << [has_line_items |-> TRUE, summary |-> "three items",
      line_items |-> <<lineItem("X1", Num(3 * QtyDen), JsNull),
                       lineItem("NOPE", Num(QtyDen), JsNull),
                       lineItem("SMOKE01", Num(2 * QtyDen), JsNull)>>,
      unmapped_items |-> <<>>],
     [has_line_items |-> TRUE, summary |-> "three items",
      line_items |-> <<lineItem("X1", Num(3 * QtyDen), Num(1)),
                       lineItem("NOPE", Num(QtyDen), Num(99000)),
                       lineItem("SMOKE01", Num(2 * QtyDen), Num(45001))>>,
      unmapped_items |-> <<>>],
     [has_line_items |-> TRUE, summary |-> "trip",
      line_items |-> <<lineItem("SMOKE01", Num(QtyDen), JsNull),
                       lineItem(TRIP_FEE_CODE, Num(QtyDen), JsNull)>>,
      unmapped_items |-> <<>>] >>

\* What a Stage B item may carry: any code, in or out of the catalog; a
\* quantity that is a fraction, one, three, absent, zero, negative or not a
\* number; no unit_price, one that rounds to SMOKE01's, or a made-up one.
ItemCodes == <<"SMOKE01", "X1", "CAULK", "GFCI", TRIP_FEE_CODE, "NOPE">>
ItemQtys == <<Num(1), Num(QtyDen), Num(3 * QtyDen), JsNull, Num(0), Num(0 - QtyDen), JsNaN>>
ItemPrices == <<JsNull, Num(45001), Num(99000)>>

\* The answers of one item: every code with every quantity and every price.
SingleItemOutputs ==
  LET nq == Len(ItemQtys)
      np == Len(ItemPrices)
  IN [n \in 1..(Len(ItemCodes) * nq * np) |->
        [has_line_items |-> TRUE, summary |-> "one item",
         line_items |-> <<lineItem(ItemCodes[((n - 1) \div (nq * np)) + 1],
                                   ItemQtys[(((n - 1) \div np) % nq) + 1],
                                   ItemPrices[((n - 1) % np) + 1])>>,
         unmapped_items |-> <<>>]]

\* Every Stage B answer of the model, by index.
PricingOutputs == StageBOutputs \o MixedOutputs \o SingleItemOutputs

FetchOutcomes == {"ok", "http_error", "timeout", "pdf_parse_error"}
fetchError ==
  [http_error |-> "Failed to fetch PDF", timeout |-> "This operation was aborted",
   pdf_parse_error |-> "Invalid PDF structure"]

StageFailures == {"timeout", "missing_output_text", "invalid_json"}
stageAError ==
  [timeout |-> "OpenAI stage A timed out", missing_output_text |-> "Stage A missing output_text",
   invalid_json |-> "Stage A: Unexpected token in JSON"]
stageBError ==
  [timeout |-> "OpenAI stage B timed out", missing_output_text |-> "Stage B missing output_text",
   invalid_json |-> "Stage B: Unexpected token in JSON"]

\* Stage A answers that parse: with the items array the schema asks for, or
\* without one.
StageAItems == {"items", "no_items_array"}

\* extractedItems: the raw_text of the items of each Stage A answer.  "SMK
\* low"; "bad gf out"; "roof" and an item without raw_text; "out" and "smk x";
\* "gf,out"; "c.k"; "old pipe"; one item "n<k>e" for each code k of the big
\* pricebook; and an answer without an items array.
ExtractedOutputs ==
  [items |-> <<<<"S", "M", "K", " ", "l", "o", "w">>>>,
   longest |-> <<<<"b", "a", "d", " ", "g", "f", " ", "o", "u", "t">>>>,
   no_alias |-> <<<<"r", "o", "o", "f">>, <<>> >>,
   two_items |-> <<<<"o", "u", "t">>, <<"s", "m", "k", " ", "x">>>>,
   punct_raw |-> <<<<"g", "f", ",", "o", "u", "t">>>>,
   punct_alias |-> <<<<"c", ".", "k">>>>,
   retired |-> <<<<"o", "l", "d", " ", "p", "i", "p", "e">>>>,
   many |-> [k \in 1..BigCatalogSize |-> tagged(k)],
   no_items_array |-> <<>>]

modelRun(a, items, b, mapped) == [a |-> a, items |-> items, b |-> b, mapped |-> mapped]

\* One pass through both model calls: stage A fails; stage A answers and
\* stage B fails; both answer.
ModelRuns ==
  {modelRun(x, "none", "none", 0) : x \in StageFailures}
    \cup {modelRun("ok", it, y, 0) : it \in StageAItems, y \in StageFailures}
    \cup {modelRun("ok", it, "ok", k) : it \in StageAItems, k \in DOMAIN StageBOutputs}

MailOutcomes == {"sent", "failed"}
PickOutcomes == {"ok", "queued_failed", "stale_failed"}

NO_ACTIVE_CONFIG == "No active config_versions row found."
NO_PDF_URLS == "Job has no PDF URLs (binsr_url/inspection_url)"
PICK_QUEUED_FAILED == "DB pick queued failed"
PICK_STALE_FAILED == "DB pick stale failed"
SEND_FAILED == "sendgrid: send failed"

\* oracle[j] holds the answers the document host, the model and the mail
\* service can give for job j in this run.
AnyAnswer == [fetch |-> FetchOutcomes, runs |-> ModelRuns, mail |-> MailOutcomes]

\* One failure and one success of each collaborator.
FewAnswers ==
  [fetch |-> {"ok", "http_error"},
   runs |-> {modelRun("invalid_json", "none", "none", 0), modelRun("ok", "items", "ok", 1)},
   mail |-> MailOutcomes]

\* The document host answers or fails; the model and the mail service answer.
LiveAnswers ==
  [fetch |-> {"ok", "http_error"}, runs |-> {modelRun("ok", "items", "ok", 1)},
   mail |-> {"sent"}]

\* Everything answers; Stage B gives the answer with index k.
pricedAnswer(k) ==
  [fetch |-> {"ok"}, runs |-> {modelRun("ok", "items", "ok", k)}, mail |-> {"sent"}]

\* Two Stage B answers that agree on everything but the prices they carry.
agreeOffPrice(m1, m2) ==
  /\ m1.has_line_items = m2.has_line_items
  /\ m1.summary = m2.summary
  /\ m1.unmapped_items = m2.unmapped_items
  /\ Len(m1.line_items) = Len(m2.line_items)
  /\ \A n \in DOMAIN m1.line_items :
       /\ m1.line_items[n].code = m2.line_items[n].code
       /\ m1.line_items[n].description = m2.line_items[n].description
       /\ m1.line_items[n].qty = m2.line_items[n].qty

\* Every invocation that works on the job is given the same document text
\* and the same model outputs.
SameAnswers ==
  {[fetch |-> {"http_error"}, runs |-> {modelRun("ok", "items", "ok", 1)}, mail |-> MailOutcomes]}
    \cup {[fetch |-> {"ok"}, runs |-> {r}, mail |-> MailOutcomes] :
            r \in {modelRun("invalid_json", "none", "none", 0),
                   modelRun("ok", "items", "timeout", 0),
                   modelRun("ok", "items", "ok", 1),
                   modelRun("ok", "no_items_array", "ok", 2)}}

---------------------------------------------------------------------------
\* The configuration store: store.active are the ids of the config_versions
\* rows marked active, store.tables the contents of the five dependent
\* tables, store.loads / store.picks the ways the configuration queries and
\* the job selects can end in this run (0: every table loaded), store.writes
\* whether an update of estimate_jobs is applied (TRUE) or comes back with an
\* error (FALSE); the handler does not look at the result of an update.

SnapIds == {1, 2}

\* loadActiveConfig: `row` is the row .eq("active", true).limit(1)
\* .maybeSingle() hands back (0 when there is none), `failed` the index of
\* the dependent table whose query returned an error (0 when all loaded).
loadActiveConfig(active, row, failed) ==
  IF active = {} \/ row \notin active
  THEN [ok |-> FALSE, id |-> 0, error |-> NO_ACTIVE_CONFIG]
  ELSE IF failed # 0
  THEN [ok |-> FALSE, id |-> 0, error |-> TableNames[failed]]
  ELSE [ok |-> TRUE, id |-> row, error |-> NoError]

HealthyStore ==
  [active |-> {1}, tables |-> 1, loads |-> {0}, picks |-> {"ok"}, writes |-> {TRUE}]

\* A store whose updates of estimate_jobs may come back with an error.
FlakyStore == [HealthyStore EXCEPT !.writes = BOOLEAN]

\* await supabase.from("estimate_jobs").update(...).eq("id", ...): the table
\* after an update that was applied or was not.
updated(applied, js, written) == IF applied THEN written ELSE js

AnyStore ==
  [active : {{}, {1}, SnapIds}, tables : CoreTables,
   loads : {{0}, 0..Len(TableNames)}, picks : {{"ok"}, PickOutcomes},
   writes : {{TRUE}}]

---------------------------------------------------------------------------
\* Invocations of the handler.

IdleInv ==
  [pc |-> "idle", job |-> NoJob, cfg |-> 0, items |-> "none", mapped |-> 0,
   candidates |-> {}, shown |-> <<>>, errors |-> <<>>, unmapped |-> <<>>,
   err |-> NoError, resp |-> "none"]

\* res.status(...).json(...): the invocation holds its answer until it returns.
responded(status, err, jobId) ==
  [IdleInv EXCEPT !.pc = "done", !.resp = status, !.err = err, !.job = jobId]

Running(i) == inv[i].pc \notin {"idle", "done"}

\* The active snapshot's tables as this invocation loaded them.
configOf(i) == [TableSets[store.tables] EXCEPT !.rules = orderByPriority(@)]

\* throw ... -> catch (e): mark the claimed job failed, answer 500.
Throw(i, msg) ==
  /\ \E w \in store.writes : jobs' = updated(w, jobs, markFailed(jobs, inv[i].job, msg))
  /\ inv' = [inv EXCEPT ![i] = responded("500", msg, inv[i].job)]

\* The intake webhook: one handler instance, its request in progress and the
\* tally_intake table.  n counts the requests received.
INSERT_ATTEMPTS == 3
NoFiles == [binsr |-> FALSE, inspection |-> FALSE]
Submissions == DocChoices \cup {NoFiles}
IdleIntake(rows, n) ==
  [pc |-> "idle", files |-> NoFiles, rows |-> rows, row |-> 0, job |-> NoJob,
   resp |-> "none", n |-> n]

\* A row of estimate_jobs that has not been inserted yet.
absentJob(j) == [newJob(j, NoFiles) EXCEPT !.status = "absent"]

\* res.status(...).json(...) of the webhook.
intakeResponded(resp) == [intake EXCEPT !.pc = "done", !.resp = resp]

\* updateIntake(patch): the update's result is not looked at.
updateIntake(rows, row, status) ==
  [rows EXCEPT ![row] = [parse_status |-> status]]

TypeOK ==
  /\ DOMAIN jobs = Jobs
  /\ DOMAIN inv = Invs
  /\ kills \in 0..MaxKills
  /\ intake.n \in 0..MaxIntake

InitJobs ==
  /\ jobs \in {[j \in Jobs |-> newJob(j, d[j])] : d \in [Jobs -> DocChoices]}
  /\ inv = [i \in Invs |-> IdleInv]
  /\ kills = 0
  /\ intake = IdleIntake(<<>>, 0)

\* Overlapping invocations on a healthy store.
Init ==
  /\ InitJobs
  /\ store = HealthyStore
  /\ oracle = [j \in Jobs |-> FewAnswers]
  /\ workers = Invs

\* One invocation at a time, every store and every answer.
InitSeq ==
  /\ InitJobs
  /\ store \in AnyStore
  /\ oracle = [j \in Jobs |-> AnyAnswer]
  /\ workers = {1}

\* One invocation at a time, every table contents and every Stage B answer;
\* the jobs of one run get answers that differ at most in the prices they
\* carry.
InitPrice ==
  /\ jobs = [j \in Jobs |-> newJob(j, [binsr |-> TRUE, inspection |-> FALSE])]
  /\ inv = [i \in Invs |-> IdleInv]
  /\ kills = 0
  /\ intake = IdleIntake(<<>>, 0)
  /\ store \in {[HealthyStore EXCEPT !.tables = t] : t \in SmallTableSets}
  /\ \E ks \in [Jobs -> DOMAIN PricingOutputs] :
       /\ \A j, k \in Jobs : agreeOffPrice(PricingOutputs[ks[j]], PricingOutputs[ks[k]])
       /\ oracle = [j \in Jobs |-> pricedAnswer(ks[j])]
  /\ workers = {1}

\* One invocation at a time on a store whose updates may fail.
InitFlaky ==
  /\ InitJobs
  /\ store = FlakyStore
  /\ oracle = [j \in Jobs |-> FewAnswers]
  /\ workers = {1}

\* Overlapping invocations; the document host may fail, the model and the
\* mail service answer.
InitLive ==
  /\ InitJobs
  /\ store = HealthyStore
  /\ oracle = [j \in Jobs |-> LiveAnswers]
  /\ workers = Invs

\* An empty estimate_jobs table that the webhook fills, on a store whose
\* inserts and updates may fail; one worker invocation at a time.
InitIntake ==
  /\ jobs = [j \in Jobs |-> absentJob(j)]
  /\ inv = [i \in Invs |-> IdleInv]
  /\ kills = 0
  /\ intake = IdleIntake(<<>>, 0)
  /\ store = FlakyStore
  /\ oracle = [j \in Jobs |-> LiveAnswers]
  /\ workers = {1}

\* The Stage A answers read against each table contents: against the big
\* pricebook, the answer with an item for each of its codes and an answer
\* without candidates.
ExtractedFor(t) ==
  IF t = BigTableSet THEN {"many", "no_alias"} ELSE DOMAIN ExtractedOutputs

\* One invocation at a time on a snapshot with aliases; the Stage A answers.
InitShortlist ==
  /\ jobs = [j \in Jobs |-> newJob(j, [binsr |-> TRUE, inspection |-> FALSE])]
  /\ inv = [i \in Invs |-> IdleInv]
  /\ kills = 0
  /\ intake = IdleIntake(<<>>, 0)
  /\ store \in {[HealthyStore EXCEPT !.tables = t] : t \in AliasTableSets}
  /\ oracle \in [Jobs -> {[fetch |-> {"ok"}, runs |-> {modelRun("ok", tag, "ok", 1)},
                           mail |-> {"sent"}] : tag \in ExtractedFor(store.tables)}]
  /\ workers = {1}

\* A row as an earlier deployment or a manual edit left it: any listed
\* spelling of queued, processing or ai_started, the in-progress ones with the
\* timestamps of work abandoned longer ago than the staleness threshold.
storedJob(j, status) ==
  [newJob(j, [binsr |-> TRUE, inspection |-> FALSE]) EXCEPT
     !.status = status,
     !.started_at = IF status \in QUEUED_VARIANTS THEN NoTime ELSE StaleTicks + 1,
     !.ai_started_at = IF status \in AI_STARTED_VARIANTS THEN StaleTicks + 1 ELSE NoTime]

\* One invocation at a time on rows stored with any spelling.
InitVariants ==
  /\ jobs \in {[j \in Jobs |-> storedJob(j, s[j])] :
                 s \in [Jobs -> QUEUED_VARIANTS \cup PROCESSING_VARIANTS \cup AI_STARTED_VARIANTS]}
  /\ inv = [i \in Invs |-> IdleInv]
  /\ kills = 0
  /\ intake = IdleIntake(<<>>, 0)
  /\ store = HealthyStore
  /\ oracle = [j \in Jobs |-> FewAnswers]
  /\ workers = {1}

\* Overlapping invocations that are given the same answers for a job.
InitSame ==
  /\ InitJobs
  /\ store = HealthyStore
  /\ oracle \in [Jobs -> SameAnswers]
  /\ workers = Invs

\* "load_config" and "claim_job": the configuration queries, then the two
\* selects of claimJob.  Nothing is written; the store does not change while
\* the model runs, so the reads are taken together.
ClaimSelect(i) ==
  /\ i \in workers
  /\ inv[i].pc = "idle"
  /\ \E row \in (IF store.active = {} THEN {0} ELSE store.active),
        failed \in store.loads, pick \in store.picks :
       LET r == loadActiveConfig(store.active, row, failed)
           j == claimJob(jobs)
           anyQueued == \E k \in Jobs : queuedRow(jobs[k])
       IN IF ~r.ok THEN Throw(i, r.error)
          ELSE IF pick = "queued_failed" THEN Throw(i, PICK_QUEUED_FAILED)
          ELSE IF pick = "stale_failed" /\ ~anyQueued THEN Throw(i, PICK_STALE_FAILED)
          ELSE /\ jobs' = jobs
               /\ inv' = [inv EXCEPT ![i] =
                            IF j = NoJob THEN responded("200 no queued jobs", NoError, NoJob)
                            ELSE [IdleInv EXCEPT !.pc = "selected", !.job = j, !.cfg = r.id]]
  /\ UNCHANGED <<kills, store, oracle, workers, intake>>

\* "mark_processing"
MarkProcessing(i) ==
  /\ inv[i].pc = "selected"
  /\ \E w \in store.writes :
       jobs' = updated(w, jobs, [jobs EXCEPT ![inv[i].job] = claimWrite(@, inv[i].cfg)])
  /\ inv' = [inv EXCEPT ![i].pc = "claimed"]
  /\ UNCHANGED <<kills, store, oracle, workers, intake>>

\* "fetch_parse_pdfs" and "mark_ai_started"
FetchDocs(i) ==
  /\ inv[i].pc = "claimed"
  /\ LET j == inv[i].job
     IN IF sourcesOf(jobs[j]) = <<>> THEN Throw(i, NO_PDF_URLS)
        ELSE \E o \in oracle[j].fetch :
               IF o = "ok"
               THEN /\ \E w \in store.writes :
                         jobs' = updated(w, jobs, [jobs EXCEPT ![j] = aiStartedWrite(@)])
                    /\ inv' = [inv EXCEPT ![i].pc = "ai"]
               ELSE Throw(i, fetchError[o])
  /\ UNCHANGED <<kills, store, oracle, workers, intake>>

\* "ai_stage_a_extract", "build_shortlist", "ai_stage_b_map" ...
\* "save_estimate_complete"
RunModel(i) ==
  /\ inv[i].pc = "ai"
  /\ LET j == inv[i].job
     IN \E o \in oracle[j].runs :
          IF o.a # "ok" THEN Throw(i, stageAError[o.a])
          ELSE IF o.b # "ok" THEN Throw(i, stageBError[o.b])
          ELSE \E config \in {configOf(i)} :
               \E entries \in {aliasMap(config.aliases)} :
               \E candidates \in {candidatesOf(ExtractedOutputs[o.items], entries)} :
               \E est \in {assembleEstimate(PricingOutputs[o.mapped], config, j)} :
                 /\ \E w \in store.writes :
                      jobs' = updated(w, jobs, [jobs EXCEPT ![j] = completeWrite(@, est)])
                 /\ inv' = [inv EXCEPT ![i].pc = "completed", ![i].items = o.items,
                                       ![i].mapped = o.mapped,
                                       ![i].candidates = candidates,
                                       ![i].shown = pbForModel(config.pricebook, candidates),
                                       ![i].errors = est.errors,
                                       ![i].unmapped = est.unmapped]
  /\ UNCHANGED <<kills, store, oracle, workers, intake>>

\* "select_template", "send_email" and "mark_email_sent": the template or
\* the fallback body, sgMail.send, then the update that records how it went.
\* The invocation's errors and unmapped lists stay as they are when it
\* answers.
SendEmail(i) ==
  /\ inv[i].pc = "completed"
  /\ LET j == inv[i].job
         errors == templateErrors(inv[i].errors, configOf(i).templates)
     IN \E o \in oracle[j].mail :
          IF o = "sent"
          THEN /\ \E w \in store.writes :
                    jobs' = updated(w, jobs, [jobs EXCEPT ![j] = emailSentWrite(@)])
               /\ inv' = [inv EXCEPT ![i] =
                            [responded("200 emailed", NoError, j)
                               EXCEPT !.errors = errors, !.unmapped = inv[i].unmapped]]
          ELSE /\ \E w \in store.writes :
                    jobs' = updated(w, jobs, [jobs EXCEPT ![j] = emailErrorWrite(@, SEND_FAILED)])
               /\ inv' = [inv EXCEPT ![i] =
                            [responded("200 not emailed", SEND_FAILED, j)
                               EXCEPT !.errors = errors, !.unmapped = inv[i].unmapped]]
  /\ UNCHANGED <<kills, store, oracle, workers, intake>>

\* The response has gone out; the function instance is free for the next trigger.
Return(i) ==
  /\ inv[i].pc = "done"
  /\ inv' = [inv EXCEPT ![i] = IdleInv]
  /\ UNCHANGED <<jobs, kills, store, oracle, workers, intake>>

\* The platform kills the invocation between two of its steps.
Kill(i) ==
  /\ Running(i)
  /\ kills < MaxKills
  /\ kills' = kills + 1
  /\ inv' = [inv EXCEPT ![i] = IdleInv]
  /\ UNCHANGED <<jobs, store, oracle, workers, intake>>

\* The awaits of the step an invocation takes from each position.
awaitsAt ==
  [idle |-> {"load_config", "claim_job"},
   selected |-> {"mark_processing"},
   claimed |-> {"fetch", "read_body", "mark_ai_started", "mark_failed"},
   ai |-> {"ai_stage_a_extract", "ai_stage_b_map", "save_estimate_complete", "mark_failed"},
   completed |-> {"send_email", "mark_email_sent"}]

\* The awaits that race a timer: fetch under fetchWithTimeout (up to the
\* response headers) and the two model calls under withTimeout.
Timed == {"fetch", "ai_stage_a_extract", "ai_stage_b_map"}

\* The peer of an await that races no timer never answers: the promise never
\* settles and the invocation stays suspended at that await.  Nothing has
\* been written by the step at that point; an update that is applied before
\* its answer is lost is the step itself followed by the next step's await.
Hang(i) ==
  /\ i \in workers
  /\ inv[i].pc \in DOMAIN awaitsAt
  /\ \E op \in awaitsAt[inv[i].pc] \ Timed :
       /\ (op \in {"read_body", "mark_ai_started"}) => sourcesOf(jobs[inv[i].job]) # <<>>
       /\ inv' = [inv EXCEPT ![i].pc = op]
  /\ UNCHANGED <<jobs, kills, store, oracle, workers, intake>>

\* The webhook receives a submission and stores the raw payload in
\* tally_intake; a failed insert is answered 502.
IntakeStore ==
  /\ intake.pc = "idle"
  /\ intake.n < MaxIntake
  /\ \E docs \in Submissions, w \in store.writes :
       intake' =
         IF w
         THEN [intake EXCEPT !.pc = "stored", !.files = docs,
                             !.rows = Append(@, [parse_status |-> "received"]),
                             !.row = Len(intake.rows) + 1, !.n = @ + 1]
         ELSE [intakeResponded("502 intake") EXCEPT !.n = @ + 1]
  /\ UNCHANGED <<jobs, inv, kills, store, oracle, workers>>

\* The fields are parsed; a submission without a file is answered 400, any
\* other is marked parsed.
IntakeParse ==
  /\ intake.pc = "stored"
  /\ \E w \in store.writes :
       intake' =
         IF intake.files = NoFiles
         THEN [intakeResponded("400") EXCEPT
                 !.rows = updated(w, @, updateIntake(@, intake.row, "parse_failed"))]
         ELSE [intake EXCEPT
                 !.pc = "parsed",
                 !.rows = updated(w, @, updateIntake(@, intake.row, "parsed"))]
  /\ UNCHANGED <<jobs, inv, kills, store, oracle, workers>>

\* insertEstimateJobWithRetry and the answer: the first attempt that is not
\* refused inserts the queued row; when every attempt is refused the intake
\* is marked job_insert_failed.
IntakeJob ==
  /\ intake.pc = "parsed"
  /\ \E tries \in [1..INSERT_ATTEMPTS -> store.writes] :
       IF \E a \in 1..INSERT_ATTEMPTS : tries[a]
       THEN \E j \in Jobs :
              /\ jobs[j].status = "absent"
              /\ jobs' = [jobs EXCEPT ![j] = newJob(j, intake.files)]
              /\ intake' = [intakeResponded("200") EXCEPT !.job = j]
       ELSE /\ jobs' = jobs
            /\ \E w \in store.writes :
                 intake' = [intakeResponded("502 job") EXCEPT
                              !.rows = updated(w, @, updateIntake(@, intake.row,
                                                                   "job_insert_failed"))]
  /\ UNCHANGED <<inv, kills, store, oracle, workers>>

\* The answer has gone out; the webhook is free for the next submission.
IntakeReturn ==
  /\ intake.pc = "done"
  /\ intake' = IdleIntake(intake.rows, intake.n)
  /\ UNCHANGED <<jobs, inv, kills, store, oracle, workers>>

tickAge(age) ==
  IF age = NoTime \/ age > StaleTicks THEN age ELSE age + 1

\* The clock advances by one tick.
Tick ==
  /\ jobs' = [j \in Jobs |-> [jobs[j] EXCEPT !.started_at = tickAge(@),
                                              !.ai_started_at = tickAge(@)]]
  /\ jobs' # jobs
  /\ UNCHANGED <<inv, kills, store, oracle, workers, intake>>

Step(i) ==
  \/ ClaimSelect(i)
  \/ MarkProcessing(i)
  \/ FetchDocs(i)
  \/ RunModel(i)
  \/ SendEmail(i)
  \/ Return(i)

Next ==
  \/ \E i \in Invs : ClaimSelect(i)
  \/ \E i \in Invs : MarkProcessing(i)
  \/ \E i \in Invs : FetchDocs(i)
  \/ \E i \in Invs : RunModel(i)
  \/ \E i \in Invs : SendEmail(i)
  \/ \E i \in Invs : Return(i)
  \/ Tick

NextKill ==
  \/ Next
  \/ \E i \in Invs : Kill(i)

\* Peers that may never answer.
NextHang ==
  \/ Next
  \/ \E i \in Invs : Hang(i)

\* The webhook next to the worker.
NextIntake ==
  \/ Next
  \/ IntakeStore
  \/ IntakeParse
  \/ IntakeJob
  \/ IntakeReturn

Spec == Init /\ [][Next]_vars
IntakeSpec == InitIntake /\ [][NextIntake]_vars
ShortlistSpec == InitShortlist /\ [][Next]_vars
HangSpec == Init /\ [][NextHang]_vars
SeqSpec == InitSeq /\ [][Next]_vars
SameSpec == InitSame /\ [][Next]_vars
KillSpec == Init /\ [][NextKill]_vars
FlakySpec == InitFlaky /\ [][Next]_vars
VariantSpec == InitVariants /\ [][Next]_vars
PriceSpec == InitPrice /\ [][Next]_vars

\* Invocations keep being triggered and every step of an invocation comes
\* back; the clock keeps advancing.  Kills are not fair: at most MaxKills
\* happen.
Fairness ==
  /\ \A i \in Invs : WF_vars(Step(i))
  /\ WF_vars(Tick)

FairSpec == InitLive /\ [][NextKill]_vars /\ Fairness

---------------------------------------------------------------------------
Terminal(j) == jobs[j].status \in {"complete", "failed"}

\* C1: under fairness every job created in the queued state eventually
\* reaches status complete or failed, also when invocations are killed
\* between their writes and when fetch, model calls or email fail.
C1_EveryJobTerminates ==
  \A j \in Jobs : (jobs[j].status = "queued") ~> Terminal(j)

---------------------------------------------------------------------------
\* Staleness as the pipeline description has it: the job is in progress and
\* the progress timestamp its claim wrote (started_at) is older than the
\* threshold.
Stale(job) ==
  /\ job.status \in PROCESSING_VARIANTS \cup AI_STARTED_VARIANTS
  /\ olderThanCutoff(job.started_at)

\* C2: once a claim write for job J has been applied (started_at is written
\* by claim writes only), no invocation whose selection runs afterwards
\* selects J before the staleness threshold has elapsed since that write;
\* this includes a reclaimed job that still carries an old ai_started_at.
C2_NoReselectBeforeStale ==
  [][\A i \in Invs :
       (inv[i].pc = "idle" /\ inv'[i].pc = "selected")
         => LET j == inv'[i].job
            IN jobs[j].started_at = NoTime \/ olderThanCutoff(jobs[j].started_at)]_vars

\* C3: every change of a job's status is queued->processing,
\* processing->ai_started, ai_started->complete, processing->failed,
\* ai_started->failed, or the reclaim of a stale in-progress job back to
\* processing; no write changes the status of a complete or failed job.
StatusChangeAllowed(j) ==
  LET a == jobs[j].status
      b == jobs'[j].status
  IN \/ a = b
     \/ <<a, b>> \in {<<"queued", "processing">>, <<"processing", "ai_started">>,
                      <<"ai_started", "complete">>, <<"processing", "failed">>,
                      <<"ai_started", "failed">>}
     \/ Stale(jobs[j]) /\ b = "processing"

C3_StatusTransitions ==
  [][\A j \in Jobs : StatusChangeAllowed(j)]_vars

\* The columns C4 compares.
record(job) ==
  [status |-> job.status, estimate |-> job.estimate_json, error |-> job.error,
   validation_errors |-> job.validation_errors, unmapped_items |-> job.unmapped_items]

\* The row one invocation working alone leaves behind for job j, given the
\* answers every invocation gets for j.
singleRun(j) ==
  LET fresh == newJob(j, [binsr |-> jobs[j].binsr_url, inspection |-> jobs[j].inspection_url])
      claimed == claimWrite(fresh, 1)
      f == CHOOSE x \in oracle[j].fetch : TRUE
      r == CHOOSE x \in oracle[j].runs : TRUE
  IN IF sourcesOf(fresh) = <<>> THEN failedWrite(claimed, NO_PDF_URLS)
     ELSE IF f # "ok" THEN failedWrite(claimed, fetchError[f])
     ELSE IF r.a # "ok" THEN failedWrite(aiStartedWrite(claimed), stageAError[r.a])
     ELSE IF r.b # "ok" THEN failedWrite(aiStartedWrite(claimed), stageBError[r.b])
     ELSE completeWrite(aiStartedWrite(claimed),
                        assembleEstimate(StageBOutputs[r.mapped], TableSets[store.tables], j))

\* C4: when invocations that work on the same job are given the same
\* configuration, document text and model outputs, then once none of them is
\* still working on it the job's status, estimate, error, validation_errors
\* and unmapped_items are those a single invocation would have left.
C4_DuplicateRunHarmless ==
  \A j \in Jobs :
    (jobs[j].status # "queued" /\ \A i \in Invs : ~(Running(i) /\ inv[i].job = j))
      => record(jobs[j]) = record(singleRun(j))

\* C4 witness: two invocations have both completed and emailed the same job.
C4_Witness ==
  \E j \in Jobs :
    /\ jobs[j].status = "complete"
    /\ \A i \in Invs : inv[i].pc = "done" /\ inv[i].job = j /\ inv[i].resp = "200 emailed"

\* C5: claimJob returns the oldest queued job when one exists; otherwise the
\* oldest in-progress job whose progress timestamp is older than the
\* threshold; otherwise none.  An in-progress job that is not stale is never
\* returned.
C5_SelectionOrder ==
  LET queued == {j \in Jobs : jobs[j].status = "queued"}
      stale == {j \in Jobs : Stale(jobs[j])}
      oldest(S, j) == j \in S /\ \A k \in S : jobs[j].created_at <= jobs[k].created_at
      got == claimJob(jobs)
  IN IF queued # {} THEN oldest(queued, got)
     ELSE IF stale # {} THEN oldest(stale, got)
     ELSE got = NoJob

\* C6 as stated: a complete job has an estimate with
\* subtotal + trip_fee + tax = total.
C6_FeesAddedToSubtotal ==
  \A j \in Jobs :
    jobs[j].status = "complete" =>
      LET e == jobs[j].estimate_json
      IN e.present /\ e.subtotal + e.trip_fee + e.tax = e.total

\* C6 amended: a complete job has an estimate whose subtotal is the sum of
\* its line totals, the trip fee line included, and subtotal + tax = total.
C6_SubtotalIncludesFees ==
  \A j \in Jobs :
    jobs[j].status = "complete" =>
      LET e == jobs[j].estimate_json
      IN /\ e.present
         /\ e.subtotal = sumTotals(e.line_items)
         /\ e.trip_fee > 0 =>
              \E n \in DOMAIN e.line_items :
                e.line_items[n].code = TRIP_FEE_CODE /\ e.line_items[n].total = e.trip_fee
         /\ e.subtotal + e.tax = e.total

\* C6 witness: a complete job whose estimate carries a trip fee and tax.
C6_Witness ==
  \E j \in Jobs :
    /\ jobs[j].status = "complete"
    /\ jobs[j].estimate_json.trip_fee > 0
    /\ jobs[j].estimate_json.tax > 0
    /\ Len(jobs[j].estimate_json.line_items) > 1

\* C7: when a step after the claim and before the complete write throws,
\* the invocation answers 500 and leaves the job failed with the non-empty
\* triggering message as its error; it writes no estimate and sends no email.
C7_ThrowMarksFailed ==
  [][\A i \in Invs :
       (inv[i].pc \in {"claimed", "ai"} /\ inv'[i].pc = "done")
         => LET j == inv[i].job
            IN /\ inv'[i].resp = "500"
               /\ inv'[i].err \notin {NoError, ""}
               /\ jobs'[j].status = "failed"
               /\ jobs'[j].error = inv'[i].err
               /\ jobs'[j].estimate_json = jobs[j].estimate_json
               /\ jobs'[j].email_sent_at = jobs[j].email_sent_at
               /\ jobs'[j].email_error = jobs[j].email_error]_vars

\* C7 witness: an invocation has answered 500 after Stage B returned invalid
\* JSON, and its job is failed with that message.
C7_Witness ==
  \E i \in Invs :
    /\ inv[i].pc = "done" /\ inv[i].resp = "500" /\ inv[i].job # NoJob
    /\ inv[i].err = stageBError["invalid_json"]
    /\ jobs[inv[i].job].status = "failed"
    /\ jobs[inv[i].job].error = stageBError["invalid_json"]
    /\ ~jobs[inv[i].job].estimate_json.present

\* C8: a model response that parses but has no items array (Stage A) or no
\* line_items array (Stage B) is fatal: no invocation that received one gets
\* as far as the complete write.
C8_NonconformingIsFatal ==
  \A i \in Invs :
    inv[i].pc = "completed" =>
      inv[i].items = "items" /\ StageBOutputs[inv[i].mapped].has_line_items

\* C9: an error raised before a job is claimed (configuration load, job
\* select) is answered with an error response and writes to no job.
C9_PreClaimErrorWritesNothing ==
  [][\A i \in Invs :
       (inv[i].pc = "idle" /\ inv'[i].pc = "done" /\ inv'[i].err # NoError)
         => inv'[i].resp = "500" /\ inv'[i].job = NoJob /\ jobs' = jobs]_vars

\* C9 witness: with one job finished and another still queued, an invocation
\* has answered 500 because a dependent table could not be read.
C9_Witness ==
  \E i \in Invs, j, k \in Jobs :
    /\ inv[i].pc = "done" /\ inv[i].resp = "500" /\ inv[i].job = NoJob
    /\ inv[i].err = TableNames[3]
    /\ jobs[j].status = "queued"
    /\ jobs[k].status \in {"complete", "failed"}

\* C10: the loader fails when a dependent table fails to load, when no
\* snapshot is active and when more than one is: no invocation then gets
\* past it.
C10_LoaderFailsFast ==
  /\ \A row \in SnapIds, failed \in DOMAIN TableNames :
       ~loadActiveConfig(store.active, row, failed).ok
  /\ Cardinality(store.active) # 1 =>
       \A i \in Invs :
         /\ inv[i].pc \in {"idle", "done"}
         /\ inv[i].pc = "done" => inv[i].resp = "500"

\* C11: when sending the email fails after the estimate was saved, the job
\* stays complete with its estimate, validation_errors and unmapped_items
\* unchanged, email_error holds the non-empty failure message, email_sent_at
\* is not written and the invocation reports success.
C11_MailFailureKeepsEstimate ==
  [][\A i \in Invs :
       (inv[i].pc = "completed" /\ inv'[i].pc = "done" /\ inv'[i].resp # "200 emailed")
         => LET j == inv[i].job
            IN /\ inv'[i].resp = "200 not emailed"
               /\ jobs[j].status = "complete" /\ jobs'[j].status = "complete"
               /\ jobs'[j].estimate_json = jobs[j].estimate_json
               /\ jobs'[j].validation_errors = jobs[j].validation_errors
               /\ jobs'[j].unmapped_items = jobs[j].unmapped_items
               /\ jobs'[j].error = jobs[j].error
               /\ jobs'[j].email_error = inv'[i].err
               /\ inv'[i].err \notin {NoError, ""}
               /\ jobs'[j].email_sent_at = jobs[j].email_sent_at]_vars

\* C11 witness: an invocation has answered 200 without an email; its job is
\* complete with an estimate, an email_error and no email_sent_at.
C11_Witness ==
  \E i \in Invs :
    /\ inv[i].pc = "done" /\ inv[i].resp = "200 not emailed" /\ inv[i].job # NoJob
    /\ jobs[inv[i].job].status = "complete"
    /\ jobs[inv[i].job].estimate_json.present
    /\ jobs[inv[i].job].email_error = SEND_FAILED
    /\ ~jobs[inv[i].job].email_sent_at

\* C12: an email for job J goes out only when a write of status complete
\* together with J's estimate has been persisted: at the moment of sending,
\* the stored job is complete and has a stored estimate, also when the
\* update of the complete write came back with an error.
C12_EmailOnlyAfterPersistedComplete ==
  [][\A i \in Invs :
       (inv[i].pc = "completed" /\ inv'[i].pc = "done" /\ inv'[i].resp = "200 emailed")
         => LET j == inv[i].job
            IN jobs[j].status = "complete" /\ jobs[j].estimate_json.present]_vars

---------------------------------------------------------------------------
\* The Stage B answer job j is given and the snapshot it is priced against,
\* in runs where there is one of each.
stageBAnswer(j) == PricingOutputs[(CHOOSE r \in oracle[j].runs : TRUE).mapped]
snapshot == TableSets[store.tables]
catalog == pricebookMap(snapshot.pricebook)

\* C13: two Stage B outputs that agree on every item's code, description and
\* quantity and on the summary, and differ only in the prices they carry,
\* leave the same persisted estimate (line items, unit prices, totals,
\* subtotal, trip fee, tax rate, tax, total).
C13_PricesNotFromModel ==
  \A j, k \in Jobs :
    (/\ jobs[j].status = "complete" /\ jobs[k].status = "complete"
     /\ agreeOffPrice(stageBAnswer(j), stageBAnswer(k)))
      => [jobs[j].estimate_json EXCEPT !.estimate_id = NoJob]
           = [jobs[k].estimate_json EXCEPT !.estimate_id = NoJob]

\* C13 witness: two completed jobs whose Stage B outputs carried different
\* prices for a catalog item; their diagnostics differ.
C13_Witness ==
  \E j, k \in Jobs :
    /\ jobs[j].status = "complete" /\ jobs[k].status = "complete"
    /\ stageBAnswer(j) # stageBAnswer(k)
    /\ jobs[j].validation_errors # jobs[k].validation_errors
    /\ jobs[j].estimate_json.line_items # <<>>

\* The items of job j's Stage B answer whose code is in the catalog, in
\* input order.
inCatalog(li) == li.code \in DOMAIN catalog
catalogItems(j) == SelectSeq(stageBAnswer(j).line_items, inCatalog)

\* The synthetic trip-fee line is appended to the estimate.
tripFeeApplies == snapshot.tripFees # <<>> /\ TRIP_FEE_CODE \in DOMAIN catalog

\* t is numer/den rounded to the nearest integer, a half rounding up.
halfUp(t, numer, den) == 2 * den * t <= 2 * numer + den /\ 2 * numer + den < 2 * den * t + 2 * den

\* C14: every mapped item whose code is in the catalog with unit price P
\* gives exactly one priced line, in input order; when its quantity Q is a
\* finite number > 0 the line has qty = Q, unit_price = P and
\* total = P x Q rounded half up at the cent (125.00 x 3 = 375.00).
C14_LineTotals ==
  \A j \in Jobs :
    jobs[j].status = "complete" =>
      LET lines == jobs[j].estimate_json.line_items
          items == catalogItems(j)
      IN /\ Len(lines) = Len(items) + (IF tripFeeApplies THEN 1 ELSE 0)
         /\ \A n \in DOMAIN items :
              /\ lines[n].code = items[n].code
              /\ (items[n].qty.k = "num" /\ items[n].qty.v > 0) =>
                   /\ lines[n].qty = items[n].qty.v
                   /\ lines[n].unit_price = catalog[items[n].code].unit_price
                   /\ halfUp(lines[n].total,
                             catalog[items[n].code].unit_price * items[n].qty.v, QtyDen)
                   /\ (lines[n].unit_price = 12500 /\ lines[n].qty = 3 * QtyDen)
                        => lines[n].total = 37500

\* C14 witness: a completed estimate prices three X1 at 375.00 after an
\* unknown code was skipped, followed by two SMOKE01.
C14_Witness ==
  \E j \in Jobs :
    /\ jobs[j].status = "complete"
    /\ Len(stageBAnswer(j).line_items) = 3
    /\ Len(catalogItems(j)) = 2
    /\ jobs[j].estimate_json.line_items[1].code = "X1"
    /\ jobs[j].estimate_json.line_items[1].total = 37500
    /\ jobs[j].estimate_json.line_items[2].code = "SMOKE01"

\* The items of job j's Stage B answer whose code is not in the catalog.
notInCatalog(li) == li.code \notin DOMAIN catalog
unknownItems(j) == SelectSeq(stageBAnswer(j).line_items, notInCatalog)

\* C15: an item whose code is absent from the catalog is listed, with a
\* reason, in the job's unmapped_items; it gives no priced line and adds
\* nothing to the subtotal; the other items are still priced and the job
\* does not fail.
C15_UnknownCodesUnmapped ==
  \A j \in Jobs :
    /\ jobs[j].status # "failed"
    /\ jobs[j].status = "complete" =>
         LET e == jobs[j].estimate_json
             unknown == unknownItems(j)
         IN /\ Len(jobs[j].unmapped_items) = Len(unknown)
            /\ \A n \in DOMAIN unknown :
                 /\ jobs[j].unmapped_items[n].item = unknown[n]
                 /\ jobs[j].unmapped_items[n].reason # ""
            /\ \A n \in DOMAIN e.line_items : e.line_items[n].code \in DOMAIN catalog
            /\ Len(e.line_items) = Len(catalogItems(j)) + (IF tripFeeApplies THEN 1 ELSE 0)
            /\ e.subtotal = sumTotals(e.line_items)

\* C15 witness: a completed job whose Stage B answer had an unknown code
\* between two catalog items; both are priced and the unknown one is listed.
C15_Witness ==
  \E j \in Jobs :
    /\ jobs[j].status = "complete"
    /\ Len(unknownItems(j)) = 1
    /\ Len(catalogItems(j)) = 2
    /\ Len(jobs[j].unmapped_items) = 1
    /\ jobs[j].unmapped_items[1].item.code = "NOPE"
    /\ jobs[j].estimate_json.subtotal > 0

\* C16: with an active trip-fee policy with base fee F and a TRIP_FEE
\* catalog entry, the estimate has exactly one line with the trip-fee code,
\* that line totals F and the subtotal is the other lines' total plus F,
\* whatever Stage B answered.
C16_ExactlyOneTripFeeLine ==
  \A j \in Jobs :
    (jobs[j].status = "complete" /\ tripFeeApplies) =>
      LET e == jobs[j].estimate_json
          F == snapshot.tripFees[1].base_fee
          trip == {n \in DOMAIN e.line_items : e.line_items[n].code = TRIP_FEE_CODE}
          isOther(l) == l.code # TRIP_FEE_CODE
      IN /\ Cardinality(trip) = 1
         /\ \A n \in trip : e.line_items[n].total = F
         /\ e.subtotal = sumTotals(SelectSeq(e.line_items, isOther)) + F

\* C17: with an active trip-fee policy and no TRIP_FEE catalog entry, no
\* trip-fee line is added, trip_fee is 0 and the subtotal is that of the
\* priced items, a 'trip fee skipped' diagnostic is in validation_errors and
\* the job still completes.
C17_TripFeeSkipped ==
  \A j \in Jobs :
    (snapshot.tripFees # <<>> /\ TRIP_FEE_CODE \notin DOMAIN catalog) =>
      /\ jobs[j].status # "failed"
      /\ jobs[j].status = "complete" =>
           LET e == jobs[j].estimate_json
           IN /\ \A n \in DOMAIN e.line_items : e.line_items[n].code # TRIP_FEE_CODE
              /\ Len(e.line_items) = Len(catalogItems(j))
              /\ e.trip_fee = 0
              /\ e.subtotal = sumTotals(e.line_items)
              /\ \E n \in DOMAIN jobs[j].validation_errors :
                   jobs[j].validation_errors[n].kind = "trip_fee_skipped"

\* C17 witness: a job completed against a snapshot that has a trip-fee
\* policy and no TRIP_FEE catalog entry, with a priced item.
C17_Witness ==
  \E j \in Jobs :
    /\ snapshot.tripFees # <<>> /\ TRIP_FEE_CODE \notin DOMAIN catalog
    /\ jobs[j].status = "complete"
    /\ jobs[j].estimate_json.subtotal > 0
    /\ jobs[j].estimate_json.trip_fee = 0

\* The snapshot's rules with the tax-rate key, and the one of them with the
\* lowest priority value.
isTaxRule(r) == r.rule_key \in {"TAX_RATE", "tax_rate"}
taxRules == SelectSeq(snapshot.rules, isTaxRule)
leadingTaxRule ==
  taxRules[CHOOSE n \in DOMAIN taxRules :
             \A k \in DOMAIN taxRules : taxRules[n].priority <= taxRules[k].priority]

\* C18: a numeric tax-rate rule text with a percent sign or a value above 1
\* is divided by 100, any other is used as a fraction unchanged, and nothing
\* else rounds the rate: "11.2%", "0.112" and "11.2" all give 0.112.
C18_TaxRateTexts ==
  \A j \in Jobs :
    (jobs[j].status = "complete" /\ taxRules # <<>>
     /\ leadingTaxRule.rule_text.kind = "number") =>
      LET t == leadingTaxRule.rule_text
          rate == jobs[j].estimate_json.tax_rate
      IN /\ rate = (IF t.pct \/ t.milli > 1000 THEN t.milli ELSE 100 * t.milli)
         /\ leadingTaxRule \in {taxRulePercentSign, taxRuleFraction, taxRulePercent}
              => rate = 11200

\* C19: on every completed estimate the tax is the resolved tax rate times
\* the subtotal, rounded half up at the cent, where the subtotal already
\* holds the trip fee, and the total is the subtotal plus the tax. One line
\* of 45.00 x 1 with no trip fee at rate 0.10 gives 45.00, 4.50 and 49.50.
C19_TaxAndTotal ==
  \A j \in Jobs :
    jobs[j].status = "complete" =>
      LET e == jobs[j].estimate_json
          items == stageBAnswer(j).line_items
      IN /\ halfUp(e.tax, e.subtotal * e.tax_rate, RateDen)
         /\ e.total = e.subtotal + e.tax
         /\ e.subtotal = sumTotals(e.line_items)
         /\ tripFeeApplies =>
              /\ e.trip_fee = snapshot.tripFees[1].base_fee
              /\ e.line_items[Len(e.line_items)].total = e.trip_fee
              /\ e.subtotal >= e.trip_fee
         /\ ( /\ ~tripFeeApplies
              /\ e.tax_rate = 10000
              /\ Len(items) = 1
              /\ items[1].code = "SMOKE01"
              /\ items[1].qty = Num(QtyDen) )
            => (e.subtotal = 4500 /\ e.tax = 450 /\ e.total = 4950)

\* C19 witness: the 45.00 example is reached.
C19_Witness ==
  /\ \E j \in Jobs :
       /\ jobs[j].status = "complete"
       /\ ~tripFeeApplies
       /\ jobs[j].estimate_json.tax_rate = 10000
       /\ Len(jobs[j].estimate_json.line_items) = 1
       /\ jobs[j].estimate_json.subtotal = 4500
       /\ jobs[j].estimate_json.tax = 450
       /\ jobs[j].estimate_json.total = 4950

\* An invocation is suspended at an await for good.
Suspended(i) == inv[i].pc \in UNION {awaitsAt[p] : p \in DOMAIN awaitsAt}

\* C20: every suspension point of the pipeline returns or is cut off by an
\* explicit timeout, so no invocation stays suspended at an await.
C20_EveryAwaitBounded == \A i \in Invs : ~Suspended(i)

\* The invocation has answered 200 for a job it completed.
answeredComplete(i) ==
  inv[i].pc = "done" /\ inv[i].resp \in {"200 emailed", "200 not emailed"}

\* C21: when an invocation ends with its job complete, every diagnostic it
\* generated (price override, trip fee skipped, template fallback) is in the
\* job's validation_errors and every unmapped item in its unmapped_items.
C21_DiagnosticsPersisted ==
  \A i \in Invs :
    answeredComplete(i) =>
      LET job == jobs[inv[i].job]
      IN /\ \A n \in DOMAIN inv[i].errors :
              \E m \in DOMAIN job.validation_errors :
                job.validation_errors[m] = inv[i].errors[n]
         /\ job.unmapped_items = inv[i].unmapped

\* What validateAndPrice returns now for the Stage B answer of job j.
pricedNow(j) == validateAndPrice(stageBAnswer(j), catalog)

\* The part of a completed job's row that validateAndPrice produced: the
\* priced lines before the trip-fee line, their subtotal, the price
\* diagnostics and the unmapped list.
pricedThen(j) ==
  LET e == jobs[j].estimate_json
      now == pricedNow(j)
  IN [line_items |-> SubSeq(e.line_items, 1, Len(now.corrected.line_items)),
      subtotal |-> e.subtotal - e.trip_fee,
      errors |-> SubSeq(jobs[j].validation_errors, 1, Len(now.errors)),
      unmapped |-> jobs[j].unmapped_items]

sameAsNow(j) ==
  LET now == pricedNow(j)
  IN pricedThen(j) = [line_items |-> now.corrected.line_items,
                      subtotal |-> now.corrected.subtotal,
                      errors |-> now.errors,
                      unmapped |-> now.unmapped]

intakeAnswers(resp) == intake.pc # "done" /\ intake'.pc = "done" /\ intake'.resp = resp

\* C23: the webhook answers 200 only with the intake row and the queued job
\* row stored; a failed intake insert is answered 502 with no job inserted;
\* a submission without a file is answered 400 with the intake marked
\* parse_failed and no job inserted; when every job insert fails the answer
\* is 502 with the intake marked job_insert_failed.
C23_IntakeAnswers ==
  [][ /\ intakeAnswers("200") =>
           /\ intake'.row \in DOMAIN intake'.rows
           /\ intake'.job \in Jobs
           /\ jobs[intake'.job].status = "absent"
           /\ jobs'[intake'.job].status = "queued"
      /\ intakeAnswers("502 intake") =>
           /\ intake'.rows = intake.rows
           /\ jobs' = jobs
      /\ intakeAnswers("400") =>
           /\ intake'.rows[intake'.row].parse_status = "parse_failed"
           /\ intake'.job = NoJob /\ jobs' = jobs
      /\ intakeAnswers("502 job") =>
           /\ intake'.rows[intake'.row].parse_status = "job_insert_failed"
           /\ intake'.job = NoJob /\ jobs' = jobs ]_vars

\* C24: every line of a persisted estimate, the trip-fee line included,
\* carries the catalog's unit price for its code and a total of quantity
\* times unit price rounded half up at the cent.
C24_LinePricesFromCatalog ==
  \A j \in Jobs :
    jobs[j].status = "complete" =>
      \A n \in DOMAIN jobs[j].estimate_json.line_items :
        LET li == jobs[j].estimate_json.line_items[n]
        IN /\ li.code \in DOMAIN catalog
           /\ li.unit_price = catalog[li.code].unit_price
           /\ halfUp(li.total, li.qty * li.unit_price, QtyDen)

\* The totals of the lines of a persisted estimate, added up.
lineTotalsOf(e) ==
  LET add[n \in 0..Len(e.line_items)] ==
        IF n = 0 THEN 0 ELSE add[n - 1] + e.line_items[n].total
  IN add[Len(e.line_items)]

\* C25: in every persisted estimate the subtotal is the sum of the totals of
\* all its lines, the trip-fee line included.
C25_SubtotalIsSumOfLines ==
  \A j \in Jobs :
    jobs[j].estimate_json.present =>
      jobs[j].estimate_json.subtotal = lineTotalsOf(jobs[j].estimate_json)

\* C25 witness: a persisted estimate with two priced lines and the trip-fee
\* line, 375.00 + 90.00 + 85.00.
C25_Witness ==
  \E j \in Jobs :
    /\ jobs[j].estimate_json.present
    /\ Len(jobs[j].estimate_json.line_items) = 3
    /\ jobs[j].estimate_json.line_items[3].code = TRIP_FEE_CODE
    /\ jobs[j].estimate_json.subtotal = 55000

\* The catalog entry's minimum billable quantity, 1 when it is unset or 0.
minimumOf(pb) ==
  IF pb.min_qty.k = "num" /\ pb.min_qty.v # 0 THEN pb.min_qty.v ELSE QtyDen

carriesOtherPrice(li) ==
  /\ li.unit_price.k = "num"
  /\ ~halfUp(catalog[li.code].unit_price, li.unit_price.v, 10)

isPriceDiagnostic(err) == err.kind = "model_unit_price"

\* C27: the price diagnostics of a completed job are, in order, those of the
\* catalog items that carried a price differing after rounding from the
\* catalog price; an item with no price or an equal one gives none; every
\* catalog item is priced all the same.
C27_PriceDiagnostics ==
  \A j \in Jobs :
    /\ jobs[j].status # "failed"
    /\ jobs[j].status = "complete" =>
         LET flagged == SelectSeq(catalogItems(j), carriesOtherPrice)
             diags == SelectSeq(jobs[j].validation_errors, isPriceDiagnostic)
         IN /\ Len(diags) = Len(flagged)
            /\ \A n \in DOMAIN flagged : diags[n].code = flagged[n].code
            /\ Len(jobs[j].estimate_json.line_items)
                 = Len(catalogItems(j)) + (IF tripFeeApplies THEN 1 ELSE 0)

\* C27 witness: of two priced catalog items of one answer, the X1 whose price
\* differs is flagged and the SMOKE01 whose price rounds to the catalog's is
\* not; both are on the estimate.
C27_Witness ==
  \E j \in Jobs :
    /\ jobs[j].status = "complete"
    /\ Len(catalogItems(j)) = 2
    /\ catalogItems(j)[1].unit_price.k = "num"
    /\ catalogItems(j)[2].unit_price = Num(45001)
    /\ catalogItems(j)[2].code = "SMOKE01"
    /\ SelectSeq(jobs[j].validation_errors, isPriceDiagnostic)
         = <<[kind |-> "model_unit_price", code |-> "X1"]>>
    /\ Len(jobs[j].estimate_json.line_items) >= 2

\* C28: the resolved tax rate is the default when the snapshot has no
\* tax-rate rule or when the text of the rule is not a number (empty and
\* blank text included); of several tax-rate rules the one with the lowest
\* priority value is used.
C28_TaxRateDefaultAndPriority ==
  \A j \in Jobs :
    jobs[j].status = "complete" =>
      LET rate == jobs[j].estimate_json.tax_rate
      IN IF taxRules = <<>> THEN rate = TAX_RATE_DEFAULT
         ELSE LET t == leadingTaxRule.rule_text
              IN /\ t.kind # "number" => rate = TAX_RATE_DEFAULT
                 /\ (t.kind = "number" /\ ~t.pct /\ t.milli <= 1000)
                      => rate = 100 * t.milli

\* The Stage A items of the run an invocation has completed.
extractedBy(i) == ExtractedOutputs[inv[i].items]

\* The alias rows whose alias is not empty and is contained, letter case
\* aside, in the raw phrase.
containedAliases(raw) ==
  {n \in DOMAIN snapshot.aliases :
     /\ snapshot.aliases[n].alias # <<>>
     /\ includes(toLowerCase(raw), toLowerCase(snapshot.aliases[n].alias))}

\* The codes of the longest of them; none when no alias is contained.
longestAliasCodes(raw) ==
  {snapshot.aliases[n].code : n \in
     {m \in containedAliases(raw) :
        \A k \in containedAliases(raw) :
          Len(snapshot.aliases[k].alias) <= Len(snapshot.aliases[m].alias)}}

\* C29: the candidate codes of a run are, item by item, the code of the
\* longest alias contained case-insensitively in the item's raw phrase; an
\* item that contains no alias adds nothing, and an empty alias never matches.
C29_ShortlistLongestAlias ==
  \A i \in Invs :
    inv[i].pc = "completed" =>
      inv[i].candidates =
        UNION {longestAliasCodes(extractedBy(i)[n]) : n \in DOMAIN extractedBy(i)}

\* The first SHORTLIST_CAP entries of a sequence.
firstOfCap(rows) == [n \in 1..(IF Len(rows) < SHORTLIST_CAP THEN Len(rows) ELSE SHORTLIST_CAP) |-> rows[n]]

\* The rows of the active catalog whose code is a candidate of the run, in
\* catalog order.
candidateRows(i) == SelectSeq(snapshot.pricebook, LAMBDA p : p.code \in inv[i].candidates)

\* What Stage B was shown is made of rows of the active catalog, no more
\* than SHORTLIST_CAP of them.
shownFromCatalog(i) ==
  /\ Len(inv[i].shown) <= SHORTLIST_CAP
  /\ {inv[i].shown[n] : n \in DOMAIN inv[i].shown}
        \subseteq {snapshot.pricebook[m] : m \in DOMAIN snapshot.pricebook}

\* C30 as stated: what Stage B is shown is a part of the active catalog of at
\* most 600 entries; when the run has a candidate code it is the first 600
\* catalog entries whose code is a candidate, and when it has none it is the
\* first 600 entries of the catalog.
C30_ShortlistShown ==
  \A i \in Invs :
    inv[i].pc = "completed" =>
      /\ shownFromCatalog(i)
      /\ inv[i].shown = IF inv[i].candidates # {} THEN firstOfCap(candidateRows(i))
                        ELSE firstOfCap(snapshot.pricebook)

\* C30 amended: the first 600 catalog entries are shown also when the run has
\* candidate codes and none of them is the code of a catalog entry.
C30_ShortlistShownOrPrefix ==
  \A i \in Invs :
    inv[i].pc = "completed" =>
      /\ shownFromCatalog(i)
      /\ inv[i].shown = IF candidateRows(i) # <<>> THEN firstOfCap(candidateRows(i))
                        ELSE firstOfCap(snapshot.pricebook)

\* A run whose candidates have more than 600 catalog entries was shown the
\* first 600 of them.
C30_Witness ==
  /\ Len(snapshot.pricebook) > SHORTLIST_CAP
  /\ \E i \in Invs :
        /\ inv[i].pc = "completed"
        /\ Len(candidateRows(i)) > SHORTLIST_CAP
        /\ Len(inv[i].shown) = SHORTLIST_CAP

\* The step of invocation i that issues its claim write.
claims(i) == inv[i].pc = "selected" /\ inv'[i].pc = "claimed"

\* C31: the claim write is one update of the claimed job only; it sets
\* status = processing, started_at = now, error = null, email_error = null
\* and config_version_id = the id of the snapshot the invocation loaded, and
\* leaves the other columns and the other jobs alone.  It comes before the
\* invocation's document fetch and model calls: the fetch starts from the
\* position the claim write leads to, and the model calls follow the fetch.
C31_ClaimWrite ==
  [][\A i \in Invs :
       /\ claims(i) =>
            LET j == inv[i].job
            IN /\ jobs'[j].status = "processing"
               /\ jobs'[j].started_at = 0
               /\ jobs'[j].error = NoError
               /\ jobs'[j].email_error = NoError
               /\ jobs'[j].config_version_id = inv[i].cfg
               /\ inv[i].cfg \in store.active
               /\ jobs' = [jobs EXCEPT ![j] =
                             [@ EXCEPT !.status = "processing", !.started_at = 0,
                                       !.error = NoError, !.email_error = NoError,
                                       !.config_version_id = inv[i].cfg]]
       /\ (inv'[i].pc = "claimed" /\ inv[i].pc # "claimed") => inv[i].pc = "selected"
       /\ (inv'[i].pc = "ai" /\ inv[i].pc # "ai") => inv[i].pc = "claimed"
       /\ (inv'[i].pc = "completed" /\ inv[i].pc # "completed") => inv[i].pc = "ai"
       /\ (inv[i].job # NoJob /\ inv'[i] # inv[i]
             /\ jobs'[inv[i].job].ai_started_at # jobs[inv[i].job].ai_started_at)
            => inv[i].pc = "claimed"]_vars

\* An invocation has just claimed a job: the row is in processing with a
\* fresh started_at, no error, and the invocation's snapshot id.
C31_Witness ==
  \E i \in Invs :
    /\ inv[i].pc = "claimed"
    /\ jobs[inv[i].job].status = "processing"
    /\ jobs[inv[i].job].started_at = 0
    /\ jobs[inv[i].job].error = NoError
    /\ jobs[inv[i].job].config_version_id = inv[i].cfg
    /\ inv[i].cfg \in store.active

\* The canonical spellings, and the canonical spelling of a stored status.
CanonicalWritten == {"processing", "ai_started", "complete", "failed"}
canonical(status) ==
  CASE status \in QUEUED_VARIANTS -> "queued"
    [] status \in PROCESSING_VARIANTS -> "processing"
    [] status \in AI_STARTED_VARIANTS -> "ai_started"
    [] OTHER -> status

\* The table with every status in its canonical spelling.
canonicalJobs == [j \in Jobs |-> [jobs[j] EXCEPT !.status = canonical(@)]]

\* A step of an invocation that writes to the row of job j.
writesTo(j) == (\E i \in Invs : inv'[i] # inv[i]) /\ jobs'[j] # jobs[j]

\* C32: every status a step writes is one of processing, ai_started,
\* complete, failed; a row stored with a variant spelling has a canonical
\* status after any write of an invocation to it; and claimJob selects from
\* rows stored with variant spellings the job it selects from the same rows
\* in canonical spelling.
C32_CanonicalStatus ==
  /\ [][\A j \in Jobs :
          /\ jobs'[j].status # jobs[j].status => jobs'[j].status \in CanonicalWritten
          /\ writesTo(j) => jobs'[j].status \in CanonicalWritten]_vars
  /\ [](claimJob(jobs) = claimJob(canonicalJobs))

\* An invocation has selected a stale row stored as "AI-STARTED" while
\* another row is stored as "Processing".
C32_Witness ==
  \E i \in Invs :
    /\ inv[i].pc = "selected"
    /\ jobs[inv[i].job].status = "AI-STARTED"
    /\ \E k \in Jobs : jobs[k].status = "Processing"

\* The step in which invocation i gets a job from claimJob.
selects(i) == inv[i].pc = "idle" /\ inv'[i].pc = "selected"

C34_FailedHasError ==
  /\ [](\A j \in Jobs : jobs[j].status = "failed" => jobs[j].error \notin {NoError, ""})
  /\ [][\A j \in Jobs :
          /\ (jobs[j].status # "failed" /\ jobs'[j].status = "failed")
               => jobs'[j].error \notin {NoError, ""}
          /\ (jobs[j].error # NoError /\ jobs'[j].error = NoError)
               => jobs'[j].status \in {"processing", "complete"}]_vars

\* A job is failed, with its error text, while another invocation that
\* claimed the same job is still at work on it.
C34_Witness ==
  \E j \in Jobs, i \in Invs :
    /\ jobs[j].status = "failed"
    /\ jobs[j].error \notin {NoError, ""}
    /\ inv[i].job = j
    /\ inv[i].pc \in {"claimed", "ai", "completed"}

\* email_sent_at or email_error is set.
deliveryRecorded(job) == job.email_sent_at \/ job.email_error # NoError

\* C35: every job that reaches complete eventually has a recorded delivery
\* outcome, also when the invocation that stored complete is killed.  Only an
\* invocation that holds the job can record the outcome, since claimJob
\* hands out no complete job (C33); so a complete job without an outcome must
\* at every moment have an invocation at work on it.
C35_DeliveryOutcomeRecorded ==
  \A j \in Jobs :
    (jobs[j].status = "complete" /\ ~deliveryRecorded(jobs[j]))
      => \E i \in Invs : Running(i) /\ inv[i].job = j

\* The step in which invocation i fetches the documents of its job.
fetches(i) == inv[i].pc = "claimed" /\ inv'[i].pc = "ai"

\* C36: an invocation goes on to fetch documents (and from there to the
\* model calls and the email) only when its claim write was applied: with one
\* invocation at a time, the row it fetches for is in processing and carries
\* the id of the invocation's snapshot.
C36_WorkOnlyAfterClaimApplied ==
  [][\A i \in Invs :
       fetches(i) => /\ jobs[inv[i].job].status = "processing"
                     /\ jobs[inv[i].job].config_version_id = inv[i].cfg]_vars

\* The codes of the catalog subset invocation i showed to Stage B.
shownCodes(i) == {inv[i].shown[n].code : n \in DOMAIN inv[i].shown}

\* C37: only codes shown to Stage B appear in the priced estimate: every
\* line of the estimate an invocation has stored, the trip-fee line the
\* handler adds aside, has a code of the subset the invocation showed, and a
\* mapped item with a catalog code that was not shown is in its unmapped list.
C37_OnlyShownCodesPriced ==
  \A i \in Invs :
    (inv[i].pc = "completed" /\ jobs[inv[i].job].status = "complete") =>
      LET j == inv[i].job
          lines == jobs[j].estimate_json.line_items
          items == PricingOutputs[inv[i].mapped].line_items
      IN /\ \A n \in DOMAIN lines :
              lines[n].code # TRIP_FEE_CODE => lines[n].code \in shownCodes(i)
         /\ \A n \in DOMAIN items :
              (items[n].code \in DOMAIN catalog /\ items[n].code \notin shownCodes(i))
                => \E m \in DOMAIN inv[i].unmapped : inv[i].unmapped[m].item = items[n]

\* C38: every job the intake webhook has inserted has a document the worker
\* ingests with INCLUDE_INSPECTION at its default; the worker fails a job
\* that has none with "Job has no PDF URLs", so no inserted job ever carries
\* that error, and every job a worker has claimed has a source to fetch.
C38_AcceptedJobsIngestible ==
  /\ \A j \in Jobs : jobs[j].error # NO_PDF_URLS
  /\ \A i \in Invs : inv[i].err # NO_PDF_URLS

====
